---- MODULE Spec2Model ----
(***************************************************************************)
(* AuthenticationProviderInt                                               *)
(* (packages/context/src/oidcContext/AuthenticationContext.provider.tsx).  *)
(*                                                                         *)
(* The provider is modelled as a state machine over renders, runs of the   *)
(* mount effect and its cleanup, the pending getUser() promises, the       *)
(* login / logout callbacks with their pending sign-in / sign-out          *)
(* promises, and the user-manager events.                                  *)
(*                                                                         *)
(* Spec is the life of the provider under renders with any props;          *)
(* SpecCallbacks adds the callbacks of the context value, under renders    *)
(* that change the logger only.                                            *)
(*                                                                         *)
(* The hooks useAuthenticationContextState and useOidcEvents and the       *)
(* user-manager factory are not part of the file: the reducer transitions, *)
(* the event handlers and the factory follow the written specification.    *)
(***************************************************************************)
EXTENDS Integers, Sequences, FiniteSets

\* ---------------------------------------------------------------- bounds
MaxEffectRuns == 3      \* runs of the mount effect in one behaviour
MaxPending == 1         \* sign-in / sign-out promises pending at once

\* ---------------------------------------------------------------- values
Null == "null"
Users == {Null, "alice"}                   \* User | null
Messages == {"network down", "expired"}    \* error.message
Loggers == {"console", "custom"}           \* logger prop
LoggerLevels == {0, 1}                     \* loggerLevel prop
Configurations == {"cfgA", "cfgB"}         \* configuration prop
Handles == {"um1", "um2"}                  \* UserManagerHandle identities
LoginKinds == {"login", "loginPopup", "loginSilent"}

VARIABLES
    mounted,      \* is a provider instance mounted
    firstRun,     \* the effect run that mounted the current instance
    props,        \* props of the latest render
    userManager,  \* line 107: handle obtained by the latest render
    oidcState,    \* line 108: reducer state of the mounted instance
    isLoggingOut, \* line 108: logout intent recorded by onLogout
    loggerCfg,    \* what setLoggerInt last installed
    listeners,    \* per handle, the number of active event subscriptions
    effectRuns,   \* number of runs of the mount effect so far
    effectHandle, \* handle captured by the live effect run's closures
    mount,        \* per effect run, its closure variable `mount`
    fetches,      \* effect runs whose getUser() promise is pending
    effectLog,    \* the calls of the latest effect run, in order
    adds,         \* addOidcEvents calls so far
    removes,      \* removeOidcEvents calls so far
    instAdds,     \* addOidcEvents calls of the current instance
    pending,      \* pending sign-in / sign-out promises
    dispatched,   \* transitions dispatched by the last step, in order
    touched,      \* a transition other than the effect's onLoading was applied
    last          \* the last step taken

vars == <<mounted, firstRun, props, userManager, oidcState, isLoggingOut,
          loggerCfg, listeners, effectRuns, effectHandle, mount, fetches,
          effectLog, adds, removes, instAdds, pending, dispatched,
          touched, last>>

\* ------------------------------------------------- OidcState transitions
getDefaultState(h) ==
    [isLoading |-> FALSE, isAuthenticated |-> FALSE, error |-> Null,
     user |-> Null, userManager |-> h]

onLoading(s) == [s EXCEPT !.isLoading = TRUE]

loadUser(s, u) ==
    [s EXCEPT !.user = u, !.isAuthenticated = (u # Null), !.isLoading = FALSE]

onError(s, m) == [s EXCEPT !.error = m, !.isLoading = FALSE]

\* unloadUser that forgets the flag
unloadUser_KeepsAuth(s) == [s EXCEPT !.user = Null]

unloadUser(s) == [s EXCEPT !.user = Null, !.isAuthenticated = FALSE]

\* A transition is [type, arg]; Reduce applies one to the pair
\* <<OidcState, logout intent>>.
T(type, arg) == [type |-> type, arg |-> arg]

Reduce(p, t) ==
    CASE t.type = "onLoading"  -> <<onLoading(p[1]), p[2]>>
      [] t.type = "loadUser"   -> <<loadUser(p[1], t.arg), p[2]>>
      [] t.type = "onError"    -> <<onError(p[1], t.arg), p[2]>>
      [] t.type = "unloadUser" -> <<unloadUser(p[1]), p[2]>>
      [] t.type = "onLogout"   -> <<p[1], TRUE>>
      [] OTHER                 -> p

RECURSIVE ReduceAll(_, _)
ReduceAll(p, ts) ==
    IF ts = <<>> THEN p ELSE ReduceAll(Reduce(p, Head(ts)), Tail(ts))

Types(ts) == [i \in 1..Len(ts) |-> ts[i].type]

\* The state belongs to one provider instance: a dispatch made by a
\* closure of an instance changes it only while that instance is mounted.
Deliver(p, alive, ts) == IF alive THEN ReduceAll(p, ts) ELSE p

\* The instance whose effect run r was is still the mounted one.
RunAlive(r) == mounted /\ r >= firstRun

\* The dispatches ts of one step, made by a closure whose instance is
\* mounted (alive) or gone.
Dispatch(alive, ts) ==
    /\ dispatched' = Types(ts)
    /\ LET p == Deliver(<<oidcState, isLoggingOut>>, alive, ts)
       IN  /\ oidcState' = p[1]
           /\ isLoggingOut' = p[2]
    /\ touched' = (touched \/ (alive /\ ts # <<>>))

\* ------------------------------------------------------ the mount effect
\* The effect body acts on a record w of what it can change:
\*   disp (transitions dispatched), logger, subs (subscriptions of its
\*   handle), log (its calls in order), fetch (getUser() started).
EffectStart(n) ==
    [disp |-> <<>>, logger |-> loggerCfg, subs |-> n, log |-> <<>>,
     fetch |-> FALSE]

CallOnLoading(w) ==
    [w EXCEPT !.disp = Append(@, T("onLoading", Null)),
              !.log = Append(@, "onLoading")]

CallSetLogger(w, level, logger) ==
    [w EXCEPT !.logger = <<level, logger>>, !.log = Append(@, "setLogger")]

CallAddOidcEvents(w) ==
    [w EXCEPT !.subs = @ + 1, !.log = Append(@, "addOidcEvents")]

CallGetUser(w) ==
    [w EXCEPT !.fetch = TRUE, !.log = Append(@, "getUser")]

\* the effect starting the fetch before anything else
EffectBody_FetchFirst(w, level, logger) ==
    CallAddOidcEvents(CallSetLogger(CallOnLoading(CallGetUser(w)), level, logger))

\* lines 113-117
EffectBody(w, level, logger) ==
    CallGetUser(CallAddOidcEvents(CallSetLogger(CallOnLoading(w), level, logger)))

\* the effect with an empty dependency list
EffectDeps_Empty(p, h) == <<>>

\* line 126: the dependency list; addOidcEvents and removeOidcEvents
\* change with userManager, setLoggerInt and the reducer callbacks never
\* change.
EffectDeps(p, h) == <<p.logger, p.loggerLevel, h>>

\* One run of the effect (lines 112-121) for the render with props p and
\* handle h, on the subscription table ls and the state pair st.
RunEffect(p, h, ls, st) ==
    LET w == EffectBody(EffectStart(ls[h]), p.loggerLevel, p.logger)
        r == effectRuns + 1
        q == ReduceAll(st, w.disp)
    IN  /\ effectRuns' = r
        /\ loggerCfg' = w.logger
        /\ listeners' = [ls EXCEPT ![h] = w.subs]
        /\ adds' = adds + (w.subs - ls[h])
        /\ effectHandle' = h
        /\ fetches' = IF w.fetch THEN fetches \cup {r} ELSE fetches
        /\ effectLog' = w.log
        /\ dispatched' = Types(w.disp)
        /\ oidcState' = q[1]
        /\ isLoggingOut' = q[2]

\* lines 122-125: the cleanup of the live effect run acts on a record c:
\*   subs (subscriptions of its handle), removes (removeOidcEvents calls),
\*   mount (its closure variable).
CallRemoveOidcEvents(c) ==
    [c EXCEPT !.subs = IF @ > 0 THEN @ - 1 ELSE 0, !.removes = @ + 1]

\* a cleanup that only clears the flag
EffectCleanup_NoRemove(c) == [c EXCEPT !.mount = FALSE]

EffectCleanup(c) == [CallRemoveOidcEvents(c) EXCEPT !.mount = FALSE]

Cleaned ==
    EffectCleanup([subs |-> listeners[effectHandle], removes |-> removes,
                   mount |-> mount[effectRuns]])

CleanupListeners == [listeners EXCEPT ![effectHandle] = Cleaned.subs]

CleanupMount == [mount EXCEPT ![effectRuns] = Cleaned.mount]

Step(op, user, msg, outcome, live) ==
    [op |-> op, user |-> user, msg |-> msg, outcome |-> outcome,
     live |-> live]

Init ==
    /\ mounted = FALSE
    /\ firstRun = 0
    /\ props = [logger |-> "console", loggerLevel |-> 0,
                configuration |-> "cfgA"]
    /\ userManager = "um1"
    /\ oidcState = getDefaultState("um1")
    /\ isLoggingOut = FALSE
    /\ loggerCfg = <<0, "console">>
    /\ listeners = [h \in Handles |-> 0]
    /\ effectRuns = 0
    /\ effectHandle = "um1"
    /\ mount = <<>>
    /\ fetches = {}
    /\ effectLog = <<>>
    /\ adds = 0
    /\ removes = 0
    /\ instAdds = 0
    /\ pending = {}
    /\ dispatched = <<>>
    /\ touched = FALSE
    /\ last = Step("init", Null, Null, "none", FALSE)

PropsSet == [logger : Loggers, loggerLevel : LoggerLevels,
             configuration : Configurations]

\* line 107: the handles the injected factory may return for a render
\* with props p.  The handle is constructed once per provider instance:
\* the first render of an instance may get any handle, its later renders
\* get the same one whatever the configuration.
authenticationServiceInt(p) == IF mounted THEN {userManager} ELSE Handles

\* First render of a new provider instance, followed by its mount effect.
Mount(p, h) ==
    /\ ~mounted
    /\ effectRuns < MaxEffectRuns
    /\ h \in authenticationServiceInt(p)
    /\ mounted' = TRUE
    /\ firstRun' = effectRuns + 1
    /\ props' = p
    /\ userManager' = h
    /\ RunEffect(p, h, listeners, <<getDefaultState(h), FALSE>>)
    /\ mount' = Append(mount, TRUE)
    /\ instAdds' = adds' - adds
    /\ touched' = FALSE
    /\ last' = Step("mount", Null, Null, "none", TRUE)
    /\ UNCHANGED <<removes, pending>>

\* A re-render with props p.  When a dependency of the effect changed the
\* previous run is cleaned up and the effect runs again.
Rerender(p, h) ==
    /\ mounted
    /\ p # props
    /\ h \in authenticationServiceInt(p)
    /\ props' = p
    /\ userManager' = h
    /\ IF EffectDeps(p, h) # EffectDeps(props, userManager)
       THEN /\ effectRuns < MaxEffectRuns
            /\ RunEffect(p, h, CleanupListeners, <<oidcState, isLoggingOut>>)
            /\ removes' = Cleaned.removes
            /\ mount' = Append(CleanupMount, TRUE)
            /\ instAdds' = instAdds + (adds' - adds)
            /\ last' = Step("effect", Null, Null, "none", TRUE)
       ELSE /\ dispatched' = <<>>
            /\ last' = Step("render", Null, Null, "none", TRUE)
            /\ UNCHANGED <<oidcState, isLoggingOut, loggerCfg, listeners,
                           effectRuns, effectHandle, mount, fetches, effectLog,
                           adds, removes, instAdds>>
    /\ UNCHANGED <<mounted, firstRun, pending, touched>>

\* Unmount: the cleanup of the live effect run (lines 122-125).
Unmount ==
    /\ mounted
    /\ mounted' = FALSE
    /\ listeners' = CleanupListeners
    /\ removes' = Cleaned.removes
    /\ mount' = CleanupMount
    /\ dispatched' = <<>>
    /\ last' = Step("unmount", Null, Null, "none", FALSE)
    /\ pending' = {[c EXCEPT !.alive = FALSE] : c \in pending}
    /\ UNCHANGED <<firstRun, props, userManager, oidcState, isLoggingOut,
                   loggerCfg, effectRuns, effectHandle, fetches, effectLog,
                   adds, instAdds, touched>>

\* the continuation without its mount guard
GetUserThen_Unguarded(r, u) == <<T("loadUser", u)>>

\* the continuation dropping the fetched user
GetUserThen_NoUser(r, u) == IF mount[r] THEN <<T("loadUser", Null)>> ELSE <<>>

\* lines 117-121: the continuation of run r's getUser() promise
GetUserThen(r, u) == IF mount[r] THEN <<T("loadUser", u)>> ELSE <<>>

GetUserResolves(r, u) ==
    /\ r \in fetches
    /\ fetches' = fetches \ {r}
    /\ Dispatch(RunAlive(r), GetUserThen(r, u))
    /\ last' = Step("getUserResolved", u, Null, "none", mount[r])
    /\ UNCHANGED <<mounted, firstRun, props, userManager, loggerCfg,
                   listeners, effectRuns, effectHandle, mount, adds, removes,
                   instAdds, pending, effectLog>>

\* a rejection handler routing the error into the state
GetUserCatch_OnError(r, m) == IF mount[r] THEN <<T("onError", m)>> ELSE <<>>

\* line 117: the promise has no rejection handler
GetUserCatch(r, m) == <<>>

GetUserRejects(r, m) ==
    /\ r \in fetches
    /\ fetches' = fetches \ {r}
    /\ Dispatch(RunAlive(r), GetUserCatch(r, m))
    /\ last' = Step("getUserRejected", Null, Null, "none", mount[r])
    /\ UNCHANGED <<mounted, firstRun, props, userManager, loggerCfg,
                   listeners, effectRuns, effectHandle, mount, effectLog, adds,
                   removes, instAdds, pending>>

\* ------------------------------------------------- login / logout
\* What a callback does before its await (Start) and when the awaited
\* promise rejects with message m (Rejected): the transitions it
\* dispatches and how the promise it returned settles.
Handled(ts, outcome) == [disp |-> ts, outcome |-> outcome]

\* login wrapped in logout's try / catch
loginCallbackRejected_Caught(m) == Handled(<<T("onError", m)>>, "resolved")

\* lines 133-137
loginCallbackStart == <<T("onLoading", Null)>>

loginCallbackRejected(m) == Handled(<<>>, "rejected")

\* lines 139-143
loginPopupCallbackStart == <<T("onLoading", Null)>>

loginPopupCallbackRejected(m) == Handled(<<>>, "rejected")

\* lines 145-149
loginSilentCallbackStart == <<T("onLoading", Null)>>

loginSilentCallbackRejected(m) == Handled(<<>>, "rejected")

\* logout clearing the user itself instead of notifying the intent
logoutCallbackStart_Unload == <<T("unloadUser", Null)>>

\* logout without its catch
logoutCallbackRejected_Rethrow(m) == Handled(<<>>, "rejected")

\* lines 151-159
logoutCallbackStart == <<T("onLogout", Null)>>

logoutCallbackRejected(m) == Handled(<<T("onError", m)>>, "resolved")

CallbackStart(kind) ==
    CASE kind = "login"       -> loginCallbackStart
      [] kind = "loginPopup"  -> loginPopupCallbackStart
      [] kind = "loginSilent" -> loginSilentCallbackStart
      [] kind = "logout"      -> logoutCallbackStart

CallbackRejected(kind, m) ==
    CASE kind = "login"       -> loginCallbackRejected(m)
      [] kind = "loginPopup"  -> loginPopupCallbackRejected(m)
      [] kind = "loginSilent" -> loginSilentCallbackRejected(m)
      [] kind = "logout"      -> logoutCallbackRejected(m)

\* A descendant invokes a callback of the context value: the part up to
\* the await runs, the sign-in / sign-out promise is left pending.  A
\* pending call is [kind, alive]: alive while its instance is mounted.
Invoke(kind) ==
    /\ mounted
    /\ Cardinality(pending) < MaxPending
    /\ [kind |-> kind, alive |-> TRUE] \notin pending
    /\ pending' = pending \cup {[kind |-> kind, alive |-> TRUE]}
    /\ Dispatch(TRUE, CallbackStart(kind))
    /\ last' = Step(kind, Null, Null, "pending", TRUE)
    /\ UNCHANGED <<mounted, firstRun, props, userManager, loggerCfg,
                   listeners, effectRuns, effectHandle, mount, fetches,
                   effectLog, adds, removes, instAdds>>

login == Invoke("login")

loginPopup == Invoke("loginPopup")

loginSilent == Invoke("loginSilent")

logout == Invoke("logout")

\* The awaited promise of the pending call c resolves: nothing is
\* dispatched (line 155 only logs) and the callback's promise resolves.
AwaitResolves(c) ==
    /\ c \in pending
    /\ pending' = pending \ {c}
    /\ Dispatch(c.alive, <<>>)
    /\ last' = Step("awaitResolved", Null, Null, "resolved", c.alive)
    /\ UNCHANGED <<mounted, firstRun, props, userManager, loggerCfg,
                   listeners, effectRuns, effectHandle, mount, fetches,
                   effectLog, adds, removes, instAdds>>

\* The awaited promise of the pending call c rejects with message m.
AwaitRejects(c, m) ==
    /\ c \in pending
    /\ pending' = pending \ {c}
    /\ Dispatch(c.alive, CallbackRejected(c.kind, m).disp)
    /\ last' = Step(c.kind \o "Rejected", Null, m,
                    CallbackRejected(c.kind, m).outcome, c.alive)
    /\ UNCHANGED <<mounted, firstRun, props, userManager, loggerCfg,
                   listeners, effectRuns, effectHandle, mount, fetches,
                   effectLog, adds, removes, instAdds>>

\* ------------------------------------------------- user-manager events
\* line 110: the handlers addOidcEvents subscribes, by event
EventHandler(e, u, m) ==
    CASE e = "userLoaded"       -> <<T("loadUser", u)>>
      [] e = "userUnloaded"     -> <<T("unloadUser", Null)>>
      [] e = "sessionExpired"   -> <<T("unloadUser", Null)>>
      [] e = "silentRenewError" -> <<T("onError", m)>>

Events == {"userLoaded", "userUnloaded", "sessionExpired", "silentRenewError"}

\* Handle h raises event e: it reaches the provider while subscribed.
Event(h, e, u, m) ==
    /\ listeners[h] > 0
    /\ Dispatch(mounted, EventHandler(e, u, m))
    /\ last' = Step("event", Null, Null, "none", TRUE)
    /\ UNCHANGED <<mounted, firstRun, props, userManager, loggerCfg,
                   listeners, effectRuns, effectHandle, mount, fetches,
                   effectLog, adds, removes, instAdds, pending>>

EventStep ==
    \/ \E h \in Handles, u \in Users : Event(h, "userLoaded", u, Null)
    \/ \E h \in Handles : Event(h, "userUnloaded", Null, Null)
    \/ \E h \in Handles : Event(h, "sessionExpired", Null, Null)
    \/ \E h \in Handles, m \in Messages : Event(h, "silentRenewError", Null, m)

FetchStep ==
    \/ \E r \in fetches, u \in Users : GetUserResolves(r, u)
    \/ \E r \in fetches : GetUserRejects(r, "network down")

CallbackStep ==
    \/ login
    \/ loginPopup
    \/ loginSilent
    \/ logout
    \/ \E c \in pending : AwaitResolves(c)
    \/ \E c \in pending, m \in Messages : AwaitRejects(c, m)

\* The life of the provider under renders with any props.
Next ==
    \/ \E p \in PropsSet, h \in Handles : Mount(p, h)
    \/ \E p \in PropsSet, h \in Handles : Rerender(p, h)
    \/ Unmount
    \/ FetchStep
    \/ EventStep

Spec == Init /\ [][Next]_vars

\* The callbacks of the context value, for provider instances mounted
\* with the default props (lines 68-78) and re-rendered with another
\* logger.
defaultProps ==
    [logger |-> "console", loggerLevel |-> 0, configuration |-> "cfgA"]

PropsLogger ==
    {p \in PropsSet : /\ p.loggerLevel = defaultProps.loggerLevel
                      /\ p.configuration = defaultProps.configuration}

NextCallbacks ==
    \/ Mount(defaultProps, "um1")
    \/ \E p \in PropsLogger : Rerender(p, "um1")
    \/ Unmount
    \/ FetchStep
    \/ EventStep
    \/ CallbackStep

SpecCallbacks == Init /\ [][NextCallbacks]_vars

\* lines 162-171: the context value handed to descendants
ContextValue ==
    [isLoading |-> oidcState.isLoading,
     isAuthenticated |-> oidcState.isAuthenticated,
     error |-> oidcState.error,
     user |-> oidcState.user,
     userManager |-> oidcState.userManager,
     events |-> oidcState.userManager]

\* ================================================================ claims
In(seq, S) == \A i \in 1..Len(seq) : seq[i] \in S

\* C1: a getUser() promise that resolves after the cleanup of its effect
\* run (unmount, or a re-run of the effect) dispatches no transition.
C1_NoLateWrite ==
    (last.op = "getUserResolved" /\ ~last.live) => dispatched = <<>>

C1_Witness ==
    /\ last.op = "getUserResolved"
    /\ ~last.live
    /\ last.user = "alice"
    /\ ~mounted

\* The state part of C2.
C2_State ==
    /\ effectRuns > 0 =>
         \E i, j \in 1..Len(effectLog) :
            /\ i < j
            /\ effectLog[i] = "addOidcEvents"
            /\ effectLog[j] = "getUser"
    /\ \A r \in fetches : mount[r] => listeners[effectHandle] = 1
    /\ adds = removes + (IF mounted THEN 1 ELSE 0)

\* The step part of C2: what an unmount does.
C2_UnmountStep ==
    (mounted /\ ~mounted') =>
        /\ removes' = removes + 1
        /\ listeners'[effectHandle] = listeners[effectHandle] - 1

\* C2: every effect run subscribes before its fetch is started, so a live
\* pending fetch always finds the subscription in place; the calls of
\* addOidcEvents and removeOidcEvents balance (one more add while mounted);
\* an unmount calls removeOidcEvents exactly once.
C2_Balanced == [](C2_State) /\ [][C2_UnmountStep]_vars

C2_Witness == ~mounted /\ adds = 2 /\ removes = 2 /\ fetches # {}

\* C3: when the sign-out call of logout() rejects with message m, the
\* promise logout() returned resolves, onError is the one transition
\* dispatched, and the error of the mounted provider's state is m.
C3_LogoutAbsorbs ==
    last.op = "logoutRejected" =>
        /\ last.outcome = "resolved"
        /\ dispatched = <<"onError">>
        /\ last.live => (ContextValue.error = last.msg
                         /\ ~ContextValue.isLoading)

C3_Witness ==
    /\ last.op = "logoutRejected"
    /\ last.live
    /\ last.msg = "network down"
    /\ ContextValue.error = "network down"

\* The steps in which a sign-in call rejects.
LoginRejectedOps ==
    {"loginRejected", "loginPopupRejected", "loginSilentRejected"}

\* The state part of C4.
C4_State ==
    last.op \in LoginRejectedOps =>
        (last.outcome = "rejected" /\ dispatched = <<>>)

\* The step part of C4.
C4_Step == last'.op \in LoginRejectedOps => oidcState'.error = oidcState.error

\* C4: when the sign-in call of login(), loginSilent() or loginPopup()
\* rejects, the promise the callback returned rejects, no transition is
\* dispatched and the error field keeps its value.
C4_LoginPropagates == [](C4_State) /\ [][C4_Step]_vars

C4_Witness ==
    /\ last.op = "loginRejected"
    /\ last.outcome = "rejected"
    /\ last.live
    /\ oidcState.isLoading

\* C5 as stated: whenever a getUser() promise started by the mounted
\* provider resolves with u, the resulting state has isLoading = FALSE and
\* isAuthenticated true exactly when u is a user object.
C5_Original ==
    [][\A r \in fetches :
          (r \notin fetches' /\ RunAlive(r) /\ last'.op = "getUserResolved")
              => /\ oidcState'.isLoading = FALSE
                 /\ oidcState'.isAuthenticated = (last'.user # Null)]_vars

\* C5 amended: when the getUser() promise of the live effect run (not
\* cleaned up by an unmount or a re-run) resolves with u, the state has
\* isLoading = FALSE, user = u and isAuthenticated true exactly when u is
\* a user object.
C5_LoadedUser ==
    (last.op = "getUserResolved" /\ last.live) =>
        /\ oidcState.isLoading = FALSE
        /\ oidcState.user = last.user
        /\ oidcState.isAuthenticated = (last.user # Null)

C5_Witness ==
    /\ last.op = "getUserResolved"
    /\ last.live
    /\ last.user = "alice"
    /\ oidcState.isAuthenticated
    /\ ~oidcState.isLoading

\* C6 as stated: while a provider is mounted there is one handle and
\* addOidcEvents has been called exactly once since its mount, whatever
\* the re-renders.
C6_Original ==
    mounted => (instAdds = 1 /\ oidcState.userManager = userManager)

\* The subscriptions over all handles.
Sum(f) == f["um1"] + f["um2"]

\* The state part of C6.
C6_State ==
    /\ Sum(listeners) = (IF mounted THEN 1 ELSE 0)
    /\ mounted => (listeners[userManager] = 1 /\ effectHandle = userManager)
    /\ mounted => oidcState.userManager = userManager
    /\ mounted => instAdds = effectRuns - firstRun + 1

\* The step part of C6: what a re-render does.
C6_RenderStep ==
    (mounted /\ mounted' /\ props' # props) =>
        IF \/ props'.logger # props.logger
           \/ props'.loggerLevel # props.loggerLevel
           \/ userManager' # userManager
        THEN adds' = adds + 1 /\ removes' = removes + 1
        ELSE adds' = adds /\ removes' = removes

\* C6 amended: at most one subscription is active (exactly one, on the one
\* handle of the instance, while mounted); addOidcEvents has been called
\* once per effect run of the instance; a re-render calls removeOidcEvents
\* and addOidcEvents once more each exactly when logger, loggerLevel or
\* the handle changed, and calls neither otherwise.
C6_Resubscribes == [](C6_State) /\ [][C6_RenderStep]_vars

C6_Witness ==
    /\ mounted
    /\ last.op = "effect"
    /\ instAdds = 2
    /\ oidcState.userManager = userManager

AllowedBy(op) ==
    CASE op \in {"mount", "effect"}                   -> {"onLoading"}
      [] op \in {"login", "loginPopup", "loginSilent"} -> {"onLoading"}
      [] op = "logout"                                -> {"onLogout"}
      [] op = "logoutRejected"                        -> {"onError"}
      [] op = "getUserResolved"                       -> {"loadUser"}
      [] op = "event" -> {"loadUser", "unloadUser", "onError"}
      [] OTHER                                        -> {}

\* The state part of C7.
C7_State ==
    /\ In(dispatched,
          {"onLoading", "loadUser", "onError", "unloadUser", "onLogout"})
    /\ In(dispatched, AllowedBy(last.op))

\* The step part of C7.
C7_Step ==
    (oidcState' # oidcState \/ isLoggingOut' # isLoggingOut) =>
        dispatched' # <<>>

C8_MountOrder ==
    /\ effectRuns > 0 =>
         effectLog = <<"onLoading", "setLogger", "addOidcEvents", "getUser">>
    /\ last.op \in {"mount", "effect"} =>
         /\ dispatched = <<"onLoading">>
         /\ oidcState.isLoading
         /\ loggerCfg = <<props.loggerLevel, props.logger>>
         /\ listeners[userManager] = 1
         /\ effectRuns \in fetches
    /\ last.op = "getUserResolved" =>
         dispatched = (IF last.live THEN <<"loadUser">> ELSE <<>>)

C8_Witness ==
    /\ last.op = "effect"
    /\ loggerCfg = <<1, "custom">>
    /\ Cardinality(fetches) = 2

\* C9: a getUser() promise that rejects dispatches no transition; when
\* nothing but the effect has touched the state of the mounted instance
\* it is still loading with no error.
C9_RejectIgnored ==
    last.op = "getUserRejected" =>
        /\ dispatched = <<>>
        /\ (mounted /\ ~touched) =>
              (oidcState.isLoading /\ oidcState.error = Null)

C9_Witness ==
    /\ last.op = "getUserRejected"
    /\ last.live
    /\ mounted
    /\ ~touched
    /\ fetches = {}
    /\ oidcState.isLoading

\* C10: in the context value of a mounted provider isAuthenticated is
\* true exactly when user is a user object.
C10_AuthIffUser ==
    mounted => (ContextValue.isAuthenticated <=> ContextValue.user # Null)

C10_Witness ==
    /\ mounted
    /\ ContextValue.isAuthenticated
    /\ ContextValue.user = "alice"
    /\ ContextValue.error = "network down"
    /\ isLoggingOut

====
